---- MODULE Spec2Model ----
(***************************************************************************)
(* Regional proxy and rebalancing engine of rmnd_lca/cement.py (class      *)
(* Cement): fetch_proxies, relink_datasets, adjust_clinker_ratio,          *)
(* update_pollutant_emissions, build_clinker_production_datasets and the   *)
(* orchestrator add_datasets_to_database.                                  *)
(*                                                                         *)
(* Python objects are modelled by identity: `heap` holds the activity      *)
(* dictionaries, `lists` holds the list objects, self_db is the list       *)
(* self.db is bound to and list 1 is the list the caller handed over.      *)
(* Real amounts are exact rationals <<numerator, denominator>>.            *)
(***************************************************************************)
EXTENDS Integers, Sequences, FiniteSets, TLC

VARIABLES
    heap,             \* activity objects, by identity
    lists,            \* list objects, by identity; lists[1] is the caller's list
    self_db,          \* the list object self.db is bound to
    geo,              \* Geomap: location -> REMIND region
    rmd,              \* scenario data (self.rmd)
    version,          \* self.version
    pc,               \* position inside the running method
    fi,               \* index of the family being processed
    d_act,            \* result of the last fetch_proxies: <<[region, id]>>
    created_datasets, \* local list of add_datasets_to_database
    log_deleted,      \* "log deleted cement datasets.csv"
    log_created,      \* "log created cement datasets.csv"
    ret,              \* what the method under study returns (a list object, a mapping)
    share,            \* adjust_clinker_ratio: share array
    ratio,            \* adjust_clinker_ratio: ratio array
    ratio_to_reach,   \* adjust_clinker_ratio: target
    average_ratio,    \* adjust_clinker_ratio: weighted ratio
    iters,            \* adjust_clinker_ratio: loop iterations done
    entry             \* snapshot of the operation's inputs at entry

vars == <<heap, lists, self_db, geo, rmd, version, pc, fi, d_act,
          created_datasets, log_deleted, log_created, ret,
          share, ratio, ratio_to_reach, average_ratio, iters, entry>>

-----------------------------------------------------------------------------
(* Bounds of the model *)

NumRegions == 2
NumFine == 3

-----------------------------------------------------------------------------
(* Sequences *)

Range(s) == {s[i] : i \in DOMAIN s}

RECURSIVE Concat(_)
Concat(ss) == IF ss = <<>> THEN <<>> ELSE Head(ss) \o Concat(Tail(ss))

RECURSIVE SumInts(_)
SumInts(s) == IF s = <<>> THEN 0 ELSE Head(s) + SumInts(Tail(s))

-----------------------------------------------------------------------------
(* Exact rational arithmetic standing for Python/numpy floats *)

Abs(x) == IF x < 0 THEN -x ELSE x

RECURSIVE GCD(_, _)
GCD(a, b) == IF b = 0 THEN a ELSE GCD(b, a % b)

Rat(n, d) ==
    LET s == IF d < 0 THEN -1 ELSE 1
        g == GCD(Abs(n), Abs(d))
    IN  <<(s * n) \div g, (s * d) \div g>>

Int2Rat(n) == <<n, 1>>
RatAdd(a, b) == Rat(a[1] * b[2] + b[1] * a[2], a[2] * b[2])
RatSub(a, b) == Rat(a[1] * b[2] - b[1] * a[2], a[2] * b[2])
RatMul(a, b) == Rat(a[1] * b[1], a[2] * b[2])
RatDiv(a, b) == Rat(a[1] * b[2], a[2] * b[1])
RatLt(a, b) == a[1] * b[2] < b[1] * a[2]
RatLe(a, b) == a[1] * b[2] <= b[1] * a[2]
RatZero == <<0, 1>>
RatOne == <<1, 1>>

RECURSIVE RatSum(_)
RatSum(s) == IF s = <<>> THEN RatZero ELSE RatAdd(Head(s), RatSum(Tail(s)))

-----------------------------------------------------------------------------
(* Geomap: the region crosswalk *)

RegionNames == <<"EUR", "REF", "CHA", "USA">>
FineNames == <<"RoW", "CH", "DE", "US", "CN">>

\* list_remind_regions: the REMIND keys of the geomatcher, in key order
list_remind_regions == SubSeq(RegionNames, 1, NumRegions)
Regions == Range(list_remind_regions)

\* the inventory's native (fine-grained) location codes
FineLocs == Range(SubSeq(FineNames, 1, NumFine))

\* the region that absorbs every location without an explicit mapping
RestOfWorldRegion == list_remind_regions[NumRegions]

ecoinvent_to_remind_location(g, location) ==
    IF location \in DOMAIN g THEN g[location] ELSE RestOfWorldRegion

remind_to_ecoinvent_location(g, region) ==
    {l \in DOMAIN g : g[l] = region}

-----------------------------------------------------------------------------
(* Activities and exchanges (wurst dictionaries) *)

None == "None"

Exchange(type, name, product, location, unit, amount, pv) ==
    [type |-> type, name |-> name, product |-> product, location |-> location,
     unit |-> unit, amount |-> amount, uncertainty_type |-> 2,
     production_volume |-> pv]

Activity(name, rp, location, unit, exchanges) ==
    [name |-> name, reference_product |-> rp, location |-> location,
     unit |-> unit, code |-> 0, exchanges |-> exchanges]

\* the triple that identifies a dataset
Key(act) == <<act.name, act.reference_product, act.location>>

\* the activities of a list object, in list order
Acts(h, l) == [i \in DOMAIN l |-> h[l[i]]]

\* ws.production / ws.technosphere / ws.biosphere
IsProduction(exc) == exc.type = "production"
IsTechnosphere(exc) == exc.type = "technosphere"
IsBiosphere(exc) == exc.type = "biosphere"

\* ws.get_many(db, equals("name", name), equals("reference product", ref_prod))
InFamily(act, name, ref_prod) ==
    act.name = name /\ act.reference_product = ref_prod

-----------------------------------------------------------------------------
(* fetch_proxies *)

\* d_map: a dict comprehension over the family in database order, so a later
\* member overwrites an earlier one that maps to the same region.
D_map(g, acts, name, ref_prod) ==
    LET fam == SelectSeq(acts, LAMBDA a : InFamily(a, name, ref_prod))
        keys == {ecoinvent_to_remind_location(g, fam[i].location) : i \in DOMAIN fam}
        last(r) == CHOOSE i \in DOMAIN fam :
                     /\ ecoinvent_to_remind_location(g, fam[i].location) = r
                     /\ \A j \in DOMAIN fam :
                          ecoinvent_to_remind_location(g, fam[j].location) = r => j <= i
    IN  [r \in keys |-> fam[last(r)].location]

\* variant: a region without a member of its own gets no fallback location
D_remind_to_eco_NoFallback(g, acts, name, ref_prod) ==
    LET d_map == D_map(g, acts, name, ref_prod)
    IN  [r \in Regions |-> IF r \in DOMAIN d_map THEN d_map[r] ELSE r]

D_remind_to_eco(g, acts, name, ref_prod) ==
    LET d_map == D_map(g, acts, name, ref_prod)
    IN  [r \in Regions |-> IF r \in DOMAIN d_map THEN d_map[r] ELSE "RoW"]

\* ws.get_one(db, name, reference product, location): the matching datasets
GetOneMatches(acts, name, ref_prod, location) ==
    SelectSeq(acts, LAMBDA a : InFamily(a, name, ref_prod) /\ a.location = location)

\* variant: the copy keeps the location of its source
MakeProxyAtSourceLocation(ds, region, code) ==
    [ds EXCEPT !.code = code]

\* deep copy of the source with the region as location, a fresh code, and the
\* production exchanges moved to the region
MakeProxy(ds, region, code) ==
    [ds EXCEPT !.location = region,
               !.code = code,
               !.exchanges = [i \in DOMAIN ds.exchanges |->
                   IF IsProduction(ds.exchanges[i])
                   THEN [ds.exchanges[i] EXCEPT !.location = region]
                   ELSE ds.exchanges[i]]]

\* the regions for which ws.get_one finds a source, in d_remind_to_eco order
ProxyRegions(g, acts, name, ref_prod) ==
    LET d == D_remind_to_eco(g, acts, name, ref_prod)
    IN  SelectSeq(list_remind_regions,
                  LAMBDA r : Len(GetOneMatches(acts, name, ref_prod, d[r])) > 0)

\* ws.get_one raises MultipleResults, which fetch_proxies does not catch
FetchRaises(g, acts, name, ref_prod) ==
    LET d == D_remind_to_eco(g, acts, name, ref_prod)
    IN  \E r \in Regions : Len(GetOneMatches(acts, name, ref_prod, d[r])) > 1

\* d_act as a sequence of <<region, proxy>>; codes are fresh from `base` on
FetchedProxies(g, acts, name, ref_prod, base) ==
    LET d == D_remind_to_eco(g, acts, name, ref_prod)
        rs == ProxyRegions(g, acts, name, ref_prod)
    IN  [i \in DOMAIN rs |->
            [region |-> rs[i],
             act |-> MakeProxy(GetOneMatches(acts, name, ref_prod, d[rs[i]])[1],
                               rs[i], base + i)]]

\* variant: the records are chosen by reference product alone
DeletedMarketsByProduct(acts, name, ref_prod) ==
    LET fam == SelectSeq(acts, LAMBDA a : a.reference_product = ref_prod)
    IN  [i \in DOMAIN fam |-> Key(fam[i])]

\* deleted_markets: what is appended to the deleted-datasets log
DeletedMarkets(acts, name, ref_prod) ==
    LET fam == SelectSeq(acts, LAMBDA a : InFamily(a, name, ref_prod))
    IN  [i \in DOMAIN fam |-> Key(fam[i])]

\* variant: the filter looks at the reference product alone
RemoveOldDatasetsByProduct(h, l, name, ref_prod) ==
    SelectSeq(l, LAMBDA id : h[id].reference_product # ref_prod)

\* "Remove old datasets": the list comprehension that self.db is rebound to
RemoveOldDatasets(h, l, name, ref_prod) ==
    SelectSeq(l, LAMBDA id : ~InFamily(h[id], name, ref_prod))

-----------------------------------------------------------------------------
(* relink_datasets *)

\* variant: the location is translated even when it is already a region
RelinkExchangeAnyLocation(g, exc, name, ref_product) ==
    IF /\ exc.name = name
       /\ exc.product = ref_product
       /\ exc.type = "technosphere"
    THEN [exc EXCEPT !.location = ecoinvent_to_remind_location(g, exc.location)]
    ELSE exc

\* variant: the type of the exchange is not looked at
RelinkExchangeAnyType(g, exc, name, ref_product) ==
    IF /\ exc.name = name
       /\ exc.product = ref_product
       /\ exc.location \notin Regions
    THEN [exc EXCEPT !.location = ecoinvent_to_remind_location(g, exc.location)]
    ELSE exc

RelinkExchange(g, exc, name, ref_product) ==
    IF /\ exc.name = name
       /\ exc.product = ref_product
       /\ exc.type = "technosphere"
       /\ exc.location \notin Regions
    THEN [exc EXCEPT !.location = ecoinvent_to_remind_location(g, exc.location)]
    ELSE exc

RelinkActivity(g, act, name, ref_product) ==
    [act EXCEPT !.exchanges = [i \in DOMAIN act.exchanges |->
        RelinkExchange(g, act.exchanges[i], name, ref_product)]]

\* for act in self.db: only the activities of the current list are visited
RelinkDatasets(g, h, l, name, ref_product) ==
    [id \in DOMAIN h |->
        IF id \in Range(l) THEN RelinkActivity(g, h[id], name, ref_product)
        ELSE h[id]]

-----------------------------------------------------------------------------
(* Names of the model's inventory and the substring tests made on them *)

ClinkerProduction == [name |-> "clinker production", ref_prod |-> "clinker"]
ClinkerMarket == [name |-> "market for clinker", ref_prod |-> "clinker"]
CementProduction == [name |-> "cement production, Portland", ref_prod |-> "cement, Portland"]
CementMarket == [name |-> "market for cement, Portland", ref_prod |-> "cement, Portland"]

\* name and reference product of the "cement, unspecified" family, by version
CementUnspecified(v) ==
    IF v = 35
    THEN [name |-> "market for cement, unspecified", ref_prod |-> "cement, unspecified"]
    ELSE [name |-> "cement, all types to generic market for cement, unspecified",
          ref_prod |-> "cement, unspecified"]

ElectricityGroup == "market group for electricity, medium voltage"
SteamProduction == "steam production, as energy carrier, in chemical industry"

\* any(ele in x["name"] for ele in list_fuels), over the names of the model
HasFuelWord(name) ==
    name \in {"market for hard coal",                      \* "coal"
              "market for electricity, medium voltage",    \* "electricity"
              ElectricityGroup,                            \* "electricity"
              "market for heavy fuel oil"}                 \* "fuel", "oil"

\* 'cement' in exc['product'], over the products of the model
HasCement(product) ==
    product \in {"cement, Portland", "cement, unspecified",
                 "cement, blast furnace slag 35-70%"}

\* mapping.generate_fuel_map(): candidate supplier names per fuel
fuel_map ==
    ("waste" :> {"market for waste plastic, mixture"})
    @@ ("wood pellet" :> {"market for wood pellet"})
    @@ ("hard coal" :> {"market for hard coal"})

\* mapping.get_remind_to_ecoinvent_emissions(): biosphere flow -> pollutant
emissions_map ==
    ("Nitrogen oxides" :> "NOx") @@ ("Sulfur dioxide" :> "SO2")

\* fuels_lower_heating_value.txt (MJ/kg)
fuels_lhv ==
    ("waste" :> Rat(10, 1)) @@ ("wood pellet" :> Rat(15, 1)) @@ ("hard coal" :> Rat(25, 1))

\* fuel_co2_emission_factor.txt (kg CO2/MJ, biogenic share)
fuels_co2 ==
    ("waste" :> [co2 |-> Rat(1, 10), bio_share |-> Rat(1, 2)])
    @@ ("wood pellet" :> [co2 |-> Rat(1, 10), bio_share |-> Rat(1, 1)])
    @@ ("hard coal" :> [co2 |-> Rat(1, 10), bio_share |-> Rat(0, 1)])

\* the tuples the fuel loop runs over: (fuel, reference product, fallback region)
FuelLoop ==
    <<<<"waste", "waste plastic, mixture", "EUR">>,
      <<"wood pellet", "wood pellet, measured as dry mass", "EUR">>,
      <<"hard coal", "hard coal", "REF">>>>

-----------------------------------------------------------------------------
(* Supplier resolver *)

get_suppliers_of_a_region(g, acts, remind_region, technologies, reference_product) ==
    SelectSeq(acts, LAMBDA a :
        /\ a.name \in technologies
        /\ a.location \in remind_to_ecoinvent_location(g, remind_region)
        /\ a.unit = "kilogram"
        /\ a.reference_product = reference_product)

SupplierKey(act) == <<act.name, act.location, act.reference_product, act.unit>>

\* the (key, production volume) assignments made by the two nested loops
ProductionAssignments(ds) ==
    Concat([i \in DOMAIN ds |->
        LET prods == SelectSeq(ds[i].exchanges, IsProduction)
        IN  [j \in DOMAIN prods |->
                [key |-> SupplierKey(ds[i]), pv |-> prods[j].production_volume]]])

\* keys of dict_act in insertion order
RECURSIVE DictKeys(_, _)
DictKeys(assignments, seen) ==
    IF assignments = <<>> THEN <<>>
    ELSE IF Head(assignments).key \in seen THEN DictKeys(Tail(assignments), seen)
    ELSE <<Head(assignments).key>>
         \o DictKeys(Tail(assignments), seen \cup {Head(assignments).key})

\* dict_act[key] is overwritten by every assignment, so the last one stays
DictValue(assignments, key) ==
    LET idx == {i \in DOMAIN assignments : assignments[i].key = key}
        last == CHOOSE i \in idx : \A j \in idx : j <= i
    IN  assignments[last].pv

TotalProductionVolume(ds) ==
    LET a == ProductionAssignments(ds)
    IN  SumInts([i \in DOMAIN a |-> a[i].pv])

\* dict_act[d] /= total_production_volume raises ZeroDivisionError
SharesRaise(ds) ==
    ProductionAssignments(ds) # <<>> /\ TotalProductionVolume(ds) = 0

get_shares_from_production_volume(ds) ==
    LET a == ProductionAssignments(ds)
        keys == DictKeys(a, {})
        total == TotalProductionVolume(ds)
    IN  [i \in DOMAIN keys |->
            [key |-> keys[i], share |-> Rat(DictValue(a, keys[i]), total)]]

-----------------------------------------------------------------------------
(* Quantity recomputation: build_clinker_production_datasets *)

Clip01(x) == IF RatLt(x, RatZero) THEN RatZero ELSE IF RatLt(RatOne, x) THEN RatOne ELSE x

\* x.clip(0, 1) followed by x /= x.sum(axis=0)
ClipNormalise(xs) ==
    LET c == [i \in DOMAIN xs |-> Clip01(xs[i])]
    IN  [i \in DOMAIN xs |-> RatDiv(c[i], RatSum(c))]

\* energy_input_per_ton_clinker.sum(): MJ per ton of clinker
energy_input_per_ton_clinker(gnr) ==
    LET s == ClipNormalise(gnr.kiln_share)
    IN  RatSum([i \in DOMAIN s |-> RatMul(s[i], gnr.thermal[i])])

FuelOrder == <<"waste", "wood pellet", "hard coal">>

\* fuel_qty_per_type: kg of fuel per ton of clinker, per fuel type
fuel_qty_per_type(energy, mix) ==
    [i \in DOMAIN FuelOrder |->
        RatDiv(RatMul(energy, mix[i]), fuels_lhv[FuelOrder[i]])]

\* fuel_fossil_co2_per_type.sum()
fuel_fossil_co2(energy, mix) ==
    RatSum([i \in DOMAIN FuelOrder |->
        RatMul(RatMul(energy, mix[i]),
               RatMul(fuels_co2[FuelOrder[i]].co2,
                      RatSub(RatOne, fuels_co2[FuelOrder[i]].bio_share)))])

\* fuel_biogenic_co2_per_type.sum()
fuel_biogenic_co2(energy, mix) ==
    RatSum([i \in DOMAIN FuelOrder |->
        RatMul(RatMul(energy, mix[i]),
               RatMul(fuels_co2[FuelOrder[i]].co2, fuels_co2[FuelOrder[i]].bio_share))])

\* the quantities the loop body derives from the GNR data of one region
Quantities(gnr) ==
    LET energy == energy_input_per_ton_clinker(gnr)
        mix == ClipNormalise(gnr.fuel_mix)
    IN  [energy |-> energy,
         fuel_qty |-> fuel_qty_per_type(energy, mix),
         fossil_co2 |-> fuel_fossil_co2(energy, mix),
         biogenic_co2 |-> fuel_biogenic_co2(energy, mix),
         recovered_share |-> gnr.recovered_share]

\* an exchange dictionary written out by the method itself
NewExchange(type, name, product, location, unit, amount) ==
    [type |-> type, name |-> name, product |-> product, location |-> location,
     unit |-> unit, amount |-> amount, uncertainty_type |-> 0,
     production_volume |-> 0]

\* remove_exchanges followed by the filter that drops the emptied dictionaries
remove_exchanges(exchanges) ==
    SelectSeq(exchanges, LAMBDA exc : ~HasFuelWord(exc.name))

\* the supplier shares used for one fuel: the region's, else the fallback region's
FuelSupplierSets(g, acts, k, fuel) ==
    LET own == get_suppliers_of_a_region(g, acts, k, fuel_map[fuel[1]], fuel[2])
    IN  IF Len(ProductionAssignments(own)) = 0
        THEN <<own, get_suppliers_of_a_region(g, acts, fuel[3], fuel_map[fuel[1]], fuel[2])>>
        ELSE <<own>>

FuelSuppliers(g, acts, k, fuel) ==
    LET sets == FuelSupplierSets(g, acts, k, fuel)
    IN  get_shares_from_production_volume(sets[Len(sets)])

FuelSuppliersRaise(g, acts, k, fuel) ==
    LET sets == FuelSupplierSets(g, acts, k, fuel)
    IN  \E i \in DOMAIN sets : SharesRaise(sets[i])

\* the exchanges appended for one fuel type
FuelExchanges(g, acts, k, q, fuel) ==
    LET fuel_suppliers == FuelSuppliers(g, acts, k, fuel)
    IN  [i \in DOMAIN fuel_suppliers |->
            NewExchange("technosphere",
                        fuel_suppliers[i].key[1],
                        fuel_suppliers[i].key[3],
                        fuel_suppliers[i].key[2],
                        fuel_suppliers[i].key[4],
                        RatDiv(RatMul(fuel_suppliers[i].share, q.fuel_qty[3]),
                               Int2Rat(1000)))]

\* carbon capture rate: captured over emitted CO2 of the region
carbon_capture_rate(data) == RatDiv(Int2Rat(data.cco2), Int2Rat(data.co2))

\* the rate used from the "if carbon_capture_rate > 0 ... else" on
EffectiveCaptureRate(data) ==
    IF RatLt(RatZero, carbon_capture_rate(data)) THEN carbon_capture_rate(data)
    ELSE RatZero

\* CO2 effectively captured per kg of clinker
carbon_capture_abs(q, data) ==
    RatMul(carbon_capture_rate(data),
           RatDiv(RatAdd(RatAdd(q.biogenic_co2, q.fossil_co2), Int2Rat(525)),
                  Int2Rat(1000)))

\* variant: the gate lets a rate of zero through
CarbonCaptureExchangesNonNegative(k, q, data) ==
    IF RatLe(RatZero, carbon_capture_rate(data))
    THEN <<NewExchange("technosphere", ElectricityGroup, "electricity, medium voltage",
                       k, "kilowatt hour",
                       RatMul(carbon_capture_abs(q, data), Rat(146 + 24, 1000))),
           NewExchange("technosphere", SteamProduction,
                       "heat, from steam, in chemical industry", "RoW", "megajoule",
                       RatSub(RatMul(carbon_capture_abs(q, data), Rat(348, 100)),
                              RatDiv(RatMul(q.recovered_share, q.energy),
                                     Int2Rat(1000))))>>
    ELSE <<>>

\* the two exchanges appended when carbon is captured
CarbonCaptureExchanges(k, q, data) ==
    IF RatLt(RatZero, carbon_capture_rate(data))
    THEN <<NewExchange("technosphere", ElectricityGroup, "electricity, medium voltage",
                       k, "kilowatt hour",
                       RatMul(carbon_capture_abs(q, data), Rat(146 + 24, 1000))),
           NewExchange("technosphere", SteamProduction,
                       "heat, from steam, in chemical industry", "RoW", "megajoule",
                       RatSub(RatMul(carbon_capture_abs(q, data), Rat(348, 100)),
                              RatDiv(RatMul(q.recovered_share, q.energy),
                                     Int2Rat(1000))))>>
    ELSE <<>>

\* index of the first exchange with the given name, 0 if there is none
FirstNamed(exchanges, name) ==
    IF \E i \in DOMAIN exchanges : exchanges[i].name = name
    THEN CHOOSE i \in DOMAIN exchanges :
            /\ exchanges[i].name = name
            /\ \A j \in DOMAIN exchanges : exchanges[j].name = name => i <= j
    ELSE 0

FossilCO2Amount(q, data) ==
    RatMul(RatDiv(RatAdd(q.fossil_co2, Int2Rat(525)), Int2Rat(1000)),
           RatSub(RatOne, EffectiveCaptureRate(data)))

BiogenicCO2Amount(q, data) ==
    RatMul(RatDiv(q.biogenic_co2, Int2Rat(1000)),
           RatSub(RatOne, EffectiveCaptureRate(data)))

\* "Update fossil CO2 exchange" and "Update biogenic CO2 exchange"
UpdateCO2(exchanges, q, data) ==
    LET f == FirstNamed(exchanges, "Carbon dioxide, fossil")
        e1 == [exchanges EXCEPT ![f].amount = FossilCO2Amount(q, data),
                                ![f].uncertainty_type = 0]
        b == FirstNamed(e1, "Carbon dioxide, non-fossil")
    IN  IF b # 0
        THEN [e1 EXCEPT ![b].amount = BiogenicCO2Amount(q, data),
                        ![b].uncertainty_type = 0]
        ELSE Append(e1, NewExchange("biosphere", "Carbon dioxide, non-fossil", None, None,
                                    "kilogram", BiogenicCO2Amount(q, data)))

\* one pass of the loop "for k, v in d_act_clinker.items()"; acts is self.db
\* after fetch_proxies, r is self.rmd
ClinkerRaises(g, acts, v, k, r) ==
    \/ \E i \in DOMAIN FuelLoop : FuelSuppliersRaise(g, acts, k, FuelLoop[i])
    \/ FirstNamed(v.exchanges, "Carbon dioxide, fossil") = 0

RecomputeClinker(g, acts, v, k, r) ==
    LET q == Quantities(r.gnr_data[k])
        data == r.data[k]
        kept == remove_exchanges(v.exchanges)
        fuels == Concat([i \in DOMAIN FuelLoop |-> FuelExchanges(g, acts, k, q, FuelLoop[i])])
        cc == CarbonCaptureExchanges(k, q, data)
    IN  [v EXCEPT !.exchanges = UpdateCO2(kept \o fuels \o cc, q, data)]

-----------------------------------------------------------------------------
(* update_pollutant_emissions *)

\* wurst.rescale_exchange(exc, value, remove_uncertainty=True): the amount is
\* multiplied by value and the uncertainty is removed
rescale_exchange(exc, value) ==
    [exc EXCEPT !.amount = RatMul(exc.amount, value), !.uncertainty_type = 0]

\* self.rmd.cement_emissions.loc[region, pollutant], with 'CHA' on KeyError
remind_emission(r, region, label) ==
    IF region \in DOMAIN r.cement_emissions
    THEN r.cement_emissions[region][label]
    ELSE r.cement_emissions["CHA"][label]

UpdatePollutantExchange(r, region, exc) ==
    IF IsBiosphere(exc) /\ exc.name \in DOMAIN emissions_map
    THEN IF exc.amount = RatZero
         THEN rescale_exchange(exc,
                RatDiv(remind_emission(r, region, emissions_map[exc.name]), RatOne))
         ELSE rescale_exchange(exc,
                RatDiv(remind_emission(r, region, emissions_map[exc.name]), exc.amount))
    ELSE exc

update_pollutant_emissions(r, ds) ==
    [ds EXCEPT !.exchanges = [i \in DOMAIN ds.exchanges |->
        UpdatePollutantExchange(r, ds.location, ds.exchanges[i])]]

-----------------------------------------------------------------------------
(* update_electricity_exchanges *)

UpdateElectricityExchange(r, region, exc) ==
    IF IsTechnosphere(exc) /\ exc.unit = "kilowatt hour"
    THEN [exc EXCEPT !.amount =
            RatDiv(RatSub(r.gnr_data[region].power_consumption,
                          r.gnr_data[region].power_generation), Int2Rat(1000))]
    ELSE exc

update_electricity_exchanges(r, region, ds) ==
    [ds EXCEPT !.exchanges = [i \in DOMAIN ds.exchanges |->
        UpdateElectricityExchange(r, region, ds.exchanges[i])]]

-----------------------------------------------------------------------------
(* Composition rebalancer: adjust_clinker_ratio *)

\* np.nan, as the quotient 0/0
NaN == <<0, 0>>
IsNaN(x) == x[2] = 0

nan_to_num(xs) == [i \in DOMAIN xs |-> IF IsNaN(xs[i]) THEN RatZero ELSE xs[i]]

\* get_clinker_ratio_ecoinvent: (cement name, location) -> clinker-to-cement ratio
clinker_ratio_eco ==
    [key \in ({CementMarket.name} \X Range(FineNames))
             \cup {<<"market for cement, blast furnace slag 35-70%", "RoW">>,
                   <<"market for cement, blast furnace slag 35-70%", "CH">>} |->
        IF key[1] = CementMarket.name THEN Rat(9, 10)
        ELSE IF key[2] = "RoW" THEN Rat(1, 2) ELSE Rat(3, 10)]

\* the exchanges adjust_clinker_ratio reads and writes
IsCementInput(exc) == HasCement(exc.product) /\ exc.type = "technosphere"

CementInputs(exchanges) == SelectSeq(exchanges, IsCementInput)

\* self.clinker_ratio_eco[(exc['name'], exc['location'])] raises KeyError
RatioLookupRaises(exchanges, table) ==
    \E i \in DOMAIN exchanges :
        IsCementInput(exchanges[i])
        /\ <<exchanges[i].name, exchanges[i].location>> \notin DOMAIN table

InitialShare(exchanges) ==
    LET c == CementInputs(exchanges) IN [i \in DOMAIN c |-> c[i].amount]

InitialRatio(exchanges, table) ==
    LET c == CementInputs(exchanges)
    IN  [i \in DOMAIN c |-> table[<<c[i].name, c[i].location>>]]

\* (np.nan_to_num(ratio) * np.nan_to_num(share)).sum()
AverageRatio(sh, ra) ==
    LET s == nan_to_num(sh)
        r == nan_to_num(ra)
    IN  RatSum([i \in DOMAIN s |-> RatMul(s[i], r[i])])

\* share[share == 0] = np.nan
MaskZeroShares(sh) == [i \in DOMAIN sh |-> IF sh[i] = RatZero THEN NaN ELSE sh[i]]

\* ratio = np.where(share >= 0.001, ratio, np.nan)
MaskRatios(sh, ra) ==
    [i \in DOMAIN ra |->
        IF ~IsNaN(sh[i]) /\ RatLe(Rat(1, 1000), sh[i]) THEN ra[i] ELSE NaN]

\* np.nanargmax / np.nanargmin: first index of the extreme value, NaN ignored;
\* 0 stands for the ValueError raised on an all-NaN array
nanargmax(ra) ==
    LET live == {i \in DOMAIN ra : ~IsNaN(ra[i])}
    IN  IF live = {} THEN 0
        ELSE CHOOSE i \in live :
                /\ \A j \in live : RatLe(ra[j], ra[i])
                /\ \A j \in live : (ra[j] = ra[i]) => i <= j

nanargmin(ra) ==
    LET live == {i \in DOMAIN ra : ~IsNaN(ra[i])}
    IN  IF live = {} THEN 0
        ELSE CHOOSE i \in live :
                /\ \A j \in live : RatLe(ra[i], ra[j])
                /\ \A j \in live : (ra[j] = ra[i]) => i <= j

\* variant: the point taken from one share is not given to the other
ShiftSharesTakeOnly(sh, highest_ratio, lowest_ratio) ==
    [sh EXCEPT ![highest_ratio] = RatSub(sh[highest_ratio], Rat(1, 100))]

\* share[highest_ratio] -= .01 ; share[lowest_ratio] += .01
ShiftShares(sh, highest_ratio, lowest_ratio) ==
    LET s1 == [sh EXCEPT ![highest_ratio] = RatSub(sh[highest_ratio], Rat(1, 100))]
    IN  [s1 EXCEPT ![lowest_ratio] = RatAdd(s1[lowest_ratio], Rat(1, 100))]

\* one pass through the body of the while loop
LoopRaises(sh, ra) == nanargmax(MaskRatios(MaskZeroShares(sh), ra)) = 0

LoopBody(sh, ra) ==
    LET s0 == MaskZeroShares(sh)
        r1 == MaskRatios(s0, ra)
        s1 == ShiftShares(s0, nanargmax(r1), nanargmin(r1))
    IN  [share |-> s1, ratio |-> r1, average_ratio |-> AverageRatio(s1, r1)]

\* the write-back loop: exc['amount'] = share[count]
WriteBack(exchanges, sh) ==
    LET final == nan_to_num(sh)
        count(i) == Cardinality({j \in 1..i : IsCementInput(exchanges[j])})
    IN  [i \in DOMAIN exchanges |->
            IF IsCementInput(exchanges[i])
            THEN [exchanges[i] EXCEPT !.amount = final[count(i)]]
            ELSE exchanges[i]]

\* the whole loop, run to its end: "done", "raised" (ValueError) or "loops"
\* when it has not ended after `fuel` passes
RECURSIVE RunLoop(_, _, _, _, _)
RunLoop(sh, ra, avg, target, fuel) ==
    IF ~RatLt(target, avg) THEN [status |-> "done", share |-> sh]
    ELSE IF LoopRaises(sh, ra) THEN [status |-> "raised", share |-> sh]
    ELSE IF fuel = 0 THEN [status |-> "loops", share |-> sh]
    ELSE LET b == LoopBody(sh, ra)
         IN  RunLoop(b.share, b.ratio, b.average_ratio, target, fuel - 1)

-----------------------------------------------------------------------------
(* The inventory graph and the scenario data a run starts from *)

Production(name, product, location, unit, pv) ==
    Exchange("production", name, product, location, unit, RatOne, pv)

Technosphere(name, product, location, unit, amount) ==
    Exchange("technosphere", name, product, location, unit, amount, 0)

Biosphere(name, amount) ==
    Exchange("biosphere", name, None, None, "kilogram", amount, 0)

SlagMarket == "market for cement, blast furnace slag 35-70%"

\* the members of the five cement families at one native location
FamilyMembersAt(l, v, has_fossil) ==
    <<Activity(ClinkerProduction.name, "clinker", l, "kilogram",
        <<Production(ClinkerProduction.name, "clinker", l, "kilogram", 10),
          Technosphere("market for hard coal", "hard coal", "RoW", "kilogram", Rat(1, 10))>>
        \o (IF has_fossil THEN <<Biosphere("Carbon dioxide, fossil", Rat(4, 5))>> ELSE <<>>)
        \o <<Biosphere("Nitrogen oxides", IF l = "RoW" THEN RatZero ELSE Rat(1, 1000))>>),
      Activity(ClinkerMarket.name, "clinker", l, "kilogram",
        <<Production(ClinkerMarket.name, "clinker", l, "kilogram", 10),
          Technosphere(ClinkerProduction.name, "clinker", l, "kilogram", RatOne)>>),
      Activity(CementUnspecified(v).name, "cement, unspecified", l, "kilogram",
        <<Production(CementUnspecified(v).name, "cement, unspecified", l, "kilogram", 10),
          Technosphere(CementMarket.name, "cement, Portland", l, "kilogram", Rat(3, 5)),
          Technosphere(SlagMarket, "cement, blast furnace slag 35-70%", "RoW",
                       "kilogram", Rat(2, 5))>>),
      Activity(CementProduction.name, "cement, Portland", l, "kilogram",
        <<Production(CementProduction.name, "cement, Portland", l, "kilogram", 10),
          Technosphere(ClinkerMarket.name, "clinker", l, "kilogram", Rat(9, 10)),
          Technosphere("market for electricity, medium voltage",
                       "electricity, medium voltage", "RoW", "kilowatt hour", Rat(1, 20))>>),
      Activity(CementMarket.name, "cement, Portland", l, "kilogram",
        <<Production(CementMarket.name, "cement, Portland", l, "kilogram", 10),
          Technosphere(CementProduction.name, "cement, Portland", l, "kilogram", RatOne)>>)>>

\* the activities that belong to no regionalised family
OtherActivities(members, v) ==
    <<Activity("market for hard coal", "hard coal", "RoW", "kilogram",
        <<Production("market for hard coal", "hard coal", "RoW", "kilogram", 5)>>),
      Activity("market for hard coal", "hard coal", "CH", "kilogram",
        <<Production("market for hard coal", "hard coal", "CH", "kilogram", 3)>>),
      Activity("market for waste plastic, mixture", "waste plastic, mixture", "CH", "kilogram",
        <<Production("market for waste plastic, mixture", "waste plastic, mixture", "CH",
                     "kilogram", 2)>>),
      Activity("market for electricity, medium voltage", "electricity, medium voltage",
               "RoW", "kilowatt hour",
        <<Production("market for electricity, medium voltage",
                     "electricity, medium voltage", "RoW", "kilowatt hour", 1)>>),
      Activity(SteamProduction, "heat, from steam, in chemical industry", "RoW", "megajoule",
        <<Production(SteamProduction, "heat, from steam, in chemical industry", "RoW",
                     "megajoule", 1)>>),
      Activity(SlagMarket, "cement, blast furnace slag 35-70%", "RoW", "kilogram",
        <<Production(SlagMarket, "cement, blast furnace slag 35-70%", "RoW", "kilogram", 1)>>),
      Activity("concrete production", "concrete", "CH", "cubic meter",
        <<Production("concrete production", "concrete", "CH", "cubic meter", 1)>>
        \o [i \in DOMAIN members |->
               Technosphere(CementUnspecified(v).name, "cement, unspecified", members[i],
                            "kilogram", Rat(3, 10))])>>

\* the inventory with family members at the locations `members` (a sequence)
InitialActivities(members, v, has_fossil) ==
    LET acts == Concat([i \in DOMAIN members |-> FamilyMembersAt(members[i], v, has_fossil)])
                \o OtherActivities(members, v)
    IN  [i \in DOMAIN acts |-> [acts[i] EXCEPT !.code = i]]

\* GNR data of a region (self.rmd.gnr_data)
GnrData(r) ==
    [kiln_share |-> <<Rat(3, 2), Rat(1, 1)>>,
     thermal |-> <<Int2Rat(3000), Int2Rat(4000)>>,
     fuel_mix |-> <<Rat(1, 4), Rat(1, 4), Rat(1, 2)>>,
     power_consumption |-> IF r = "EUR" THEN Int2Rat(110) ELSE Int2Rat(120),
     power_generation |-> Int2Rat(20),
     recovered_share |-> Rat(1, 10)]

\* captured and emitted CO2 of the regions (self.rmd.data): in the scenario of
\* a whole run EUR captures a quarter of its CO2 and no other region captures
RunCapture ==
    [r \in Range(RegionNames) |-> [cco2 |-> IF r = "EUR" THEN 1 ELSE 0, co2 |-> 4]]

\* the scenarios build_clinker_production_datasets is run on by itself
CaptureScenarios ==
    {RunCapture,
     [r \in Range(RegionNames) |-> [cco2 |-> 0, co2 |-> 4]],
     [r \in Range(RegionNames) |-> [cco2 |-> IF r = "EUR" THEN -1 ELSE 2, co2 |-> 4]]}

\* self.rmd.cement_emissions: GAINS has data for some regions only
CementEmissions ==
    ("EUR" :> (("NOx" :> Rat(26, 5)) @@ ("SO2" :> Rat(1, 1))))
    @@ ("CHA" :> (("NOx" :> Rat(3, 1)) @@ ("SO2" :> Rat(2, 1))))

\* self.clinker_ratio_remind, interpolated to the year
ClinkerRatioRemind ==
    [r \in Range(RegionNames) |-> IF r = "EUR" THEN Rat(4, 5) ELSE Rat(7, 10)]

ScenarioData(capture) ==
    [gnr_data |-> [r \in Range(RegionNames) |-> GnrData(r)],
     data |-> capture,
     cement_emissions |-> CementEmissions,
     clinker_ratio_remind |-> ClinkerRatioRemind]

\* the subsequences of a sequence of distinct elements
SubSeqsOf(s) ==
    {SelectSeq(s, LAMBDA x : x \in chosen) : chosen \in SUBSET Range(s)}

-----------------------------------------------------------------------------
(* add_datasets_to_database *)

\* the families in processing order; the lists of cement production and cement
\* market datasets are cut down to the Portland pair
Families(v) ==
    <<[kind |-> "clinker production", name |-> ClinkerProduction.name,
       ref_prod |-> ClinkerProduction.ref_prod],
      [kind |-> "clinker market", name |-> ClinkerMarket.name,
       ref_prod |-> ClinkerMarket.ref_prod],
      [kind |-> "cement unspecified", name |-> CementUnspecified(v).name,
       ref_prod |-> CementUnspecified(v).ref_prod],
      [kind |-> "cement production", name |-> CementProduction.name,
       ref_prod |-> CementProduction.ref_prod],
      [kind |-> "cement market", name |-> CementMarket.name,
       ref_prod |-> CementMarket.ref_prod]>>

Family == Families(version)[fi]

\* self.db as a sequence of activities
Db == Acts(heap, lists[self_db])

LogHeader == <<<<"dataset name", "reference product", "location">>>>

NoLoop ==
    /\ share = <<>>
    /\ ratio = <<>>
    /\ ratio_to_reach = RatZero
    /\ average_ratio = RatZero
    /\ iters = 0

\* the state after Cement(db, rmd, scenario, year, version) is constructed
Constructed(versions, fossil, captures) ==
    /\ geo \in [FineLocs -> Regions]
    /\ version \in versions
    /\ \E members \in SubSeqsOf(SubSeq(FineNames, 1, NumFine)), has_fossil \in fossil :
          /\ heap = InitialActivities(members, version, has_fossil)
          /\ entry = [members |-> members, has_fossil |-> has_fossil]
    /\ \E capture \in captures : rmd = ScenarioData(capture)
    /\ lists = <<[i \in DOMAIN heap |-> i]>>
    /\ self_db = 1
    /\ fi = 1
    /\ d_act = <<>>
    /\ created_datasets = <<>>
    /\ log_deleted = <<>>
    /\ log_created = <<>>
    /\ ret = 0
    /\ NoLoop

\* a call of add_datasets_to_database on an inventory that has what the
\* recomputation needs
Init == Constructed({35, 36}, {TRUE}, {RunCapture}) /\ pc = "start"

\* both log files are opened with "w" and receive their header row
ResetLogs ==
    /\ pc = "start"
    /\ log_deleted' = LogHeader
    /\ log_created' = LogHeader
    /\ pc' = "fetch"
    /\ UNCHANGED <<heap, lists, self_db, geo, rmd, version, fi, d_act, created_datasets,
                   ret, share, ratio, ratio_to_reach, average_ratio, iters, entry>>

\* the call of fetch_proxies for the current family
FetchProxies ==
    /\ pc = "fetch"
    /\ LET raises == FetchRaises(geo, Db, Family.name, Family.ref_prod)
           proxies == FetchedProxies(geo, Db, Family.name, Family.ref_prod, Len(heap))
       IN  IF raises
           THEN /\ pc' = "raised"
                /\ UNCHANGED <<heap, lists, self_db, d_act, log_deleted>>
           ELSE /\ heap' = heap \o [i \in DOMAIN proxies |-> proxies[i].act]
                /\ d_act' = [i \in DOMAIN proxies |->
                                [region |-> proxies[i].region, id |-> Len(heap) + i]]
                /\ log_deleted' = log_deleted \o DeletedMarkets(Db, Family.name, Family.ref_prod)
                /\ lists' = Append(lists, RemoveOldDatasets(heap, lists[self_db],
                                                            Family.name, Family.ref_prod))
                /\ self_db' = Len(lists) + 1
                /\ pc' = IF Family.kind \in {"clinker production", "cement unspecified",
                                             "cement production"}
                         THEN "recompute" ELSE "insert"
    /\ UNCHANGED <<geo, rmd, version, fi, created_datasets, log_created, ret,
                   share, ratio, ratio_to_reach, average_ratio, iters, entry>>

\* "for k, v in d_act.items()": the objects the loops over d_act write to
IsProxy(d, id) == \E i \in DOMAIN d : d[i].id = id

ProxyIndex(d, id) == CHOOSE i \in DOMAIN d : d[i].id = id

\* the rest of build_clinker_production_datasets
BuildClinkerRaises ==
    \E i \in DOMAIN d_act : ClinkerRaises(geo, Db, heap[d_act[i].id], d_act[i].region, rmd)

BuildClinker(h) ==
    [id \in DOMAIN h |->
        IF IsProxy(d_act, id)
        THEN update_pollutant_emissions(rmd,
                RecomputeClinker(geo, Db, h[id], d_act[ProxyIndex(d_act, id)].region, rmd))
        ELSE h[id]]

\* the loop capacity given to adjust_clinker_ratio inside a whole run
LoopFuel == 200

AdjustOutcome(v, region) ==
    LET sh == InitialShare(v.exchanges)
        ra == InitialRatio(v.exchanges, clinker_ratio_eco)
    IN  IF RatioLookupRaises(v.exchanges, clinker_ratio_eco)
        THEN [status |-> "raised", share |-> <<>>]
        ELSE RunLoop(sh, ra, AverageRatio(sh, ra), rmd.clinker_ratio_remind[region], LoopFuel)

\* the outcome of the loop for every proxy of d_act
AdjustOutcomes == [i \in DOMAIN d_act |-> AdjustOutcome(heap[d_act[i].id], d_act[i].region)]

\* adjust_clinker_ratio(d_act): the status of the first proxy that does not
\* come to the write-back, "done" if all do
AdjustStatus(outcomes) ==
    LET bad == {i \in DOMAIN outcomes : outcomes[i].status # "done"}
    IN  IF bad = {} THEN "done"
        ELSE outcomes[CHOOSE i \in bad : \A j \in bad : i <= j].status

AdjustClinkerRatio(h, outcomes) ==
    [id \in DOMAIN h |->
        IF IsProxy(d_act, id)
        THEN [h[id] EXCEPT !.exchanges = WriteBack(@, outcomes[ProxyIndex(d_act, id)].share)]
        ELSE h[id]]

UpdateElectricity(h) ==
    [id \in DOMAIN h |->
        IF IsProxy(d_act, id)
        THEN update_electricity_exchanges(rmd, d_act[ProxyIndex(d_act, id)].region, h[id])
        ELSE h[id]]

\* what follows fetch_proxies before the proxies are inserted
Recompute ==
    /\ pc = "recompute"
    /\ \/ /\ Family.kind = "clinker production"
          /\ IF BuildClinkerRaises
             THEN pc' = "raised" /\ UNCHANGED heap
             ELSE pc' = "insert" /\ heap' = BuildClinker(heap)
       \/ /\ Family.kind = "cement unspecified"
          /\ LET outcomes == AdjustOutcomes
             IN  IF AdjustStatus(outcomes) = "done"
                 THEN pc' = "insert" /\ heap' = AdjustClinkerRatio(heap, outcomes)
                 ELSE pc' = AdjustStatus(outcomes) /\ UNCHANGED heap
       \/ /\ Family.kind = "cement production"
          /\ pc' = "insert"
          /\ heap' = UpdateElectricity(heap)
    /\ UNCHANGED <<lists, self_db, geo, rmd, version, fi, d_act, created_datasets,
                   log_deleted, log_created, ret, share, ratio, ratio_to_reach,
                   average_ratio, iters, entry>>

CreatedKeys == [i \in DOMAIN d_act |-> Key(heap[d_act[i].id])]

AfterFamily == IF fi = Len(Families(version)) THEN "write_log" ELSE "fetch"

\* self.db.extend(...) and, except for "cement, unspecified", the extension of
\* created_datasets
Insert ==
    /\ pc = "insert"
    /\ lists' = [lists EXCEPT ![self_db] = @ \o [i \in DOMAIN d_act |-> d_act[i].id]]
    /\ IF Family.kind \in {"clinker production", "clinker market"}
       THEN /\ created_datasets' = created_datasets \o CreatedKeys
            /\ pc' = AfterFamily
            /\ fi' = fi + 1
       ELSE /\ created_datasets' =
                  IF Family.kind = "cement unspecified" THEN created_datasets
                  ELSE created_datasets \o CreatedKeys
            /\ pc' = "relink"
            /\ fi' = fi
    /\ UNCHANGED <<heap, self_db, geo, rmd, version, d_act, log_deleted, log_created, ret,
                   share, ratio, ratio_to_reach, average_ratio, iters, entry>>

\* self.relink_datasets(name, ref_prod) that closes a family
Relink ==
    /\ pc = "relink"
    /\ heap' = RelinkDatasets(geo, heap, lists[self_db], Family.name, Family.ref_prod)
    /\ created_datasets' =
          IF Family.kind = "cement unspecified" THEN created_datasets \o CreatedKeys
          ELSE created_datasets
    /\ pc' = AfterFamily
    /\ fi' = IF fi = Len(Families(version)) THEN fi ELSE fi + 1
    /\ UNCHANGED <<lists, self_db, geo, rmd, version, d_act, log_deleted, log_created, ret,
                   share, ratio, ratio_to_reach, average_ratio, iters, entry>>

\* the created-datasets log is appended to after the last family
WriteCreatedLog ==
    /\ pc = "write_log"
    /\ log_created' = log_created \o created_datasets
    /\ pc' = "final_relink"
    /\ UNCHANGED <<heap, lists, self_db, geo, rmd, version, fi, d_act, created_datasets,
                   log_deleted, ret, share, ratio, ratio_to_reach, average_ratio, iters,
                   entry>>

\* the four closing relink_datasets calls
FinalRelinkPairs ==
    <<<<"clinker production", "clinker">>,
      <<"market for clinker", "clinker">>,
      <<"market for cement", "cement">>,
      <<"cement, all types to generic market for cement, unspecified",
        "cement, unspecified">>>>

RECURSIVE RelinkAll(_, _, _, _)
RelinkAll(g, h, l, pairs) ==
    IF pairs = <<>> THEN h
    ELSE RelinkAll(g, RelinkDatasets(g, h, l, Head(pairs)[1], Head(pairs)[2]), l, Tail(pairs))

FinalRelink ==
    /\ pc = "final_relink"
    /\ heap' = RelinkAll(geo, heap, lists[self_db], FinalRelinkPairs)
    /\ pc' = "return"
    /\ UNCHANGED <<lists, self_db, geo, rmd, version, fi, d_act, created_datasets,
                   log_deleted, log_created, ret, share, ratio, ratio_to_reach,
                   average_ratio, iters, entry>>

\* return self.db
Return ==
    /\ pc = "return"
    /\ ret' = self_db
    /\ pc' = "done"
    /\ UNCHANGED <<heap, lists, self_db, geo, rmd, version, fi, d_act, created_datasets,
                   log_deleted, log_created, share, ratio, ratio_to_reach,
                   average_ratio, iters, entry>>

Next ==
    \/ ResetLogs
    \/ FetchProxies
    \/ Recompute
    \/ Insert
    \/ Relink
    \/ WriteCreatedLog
    \/ FinalRelink
    \/ Return

Spec == Init /\ [][Next]_vars

-----------------------------------------------------------------------------
(* build_clinker_production_datasets run by itself: fetch_proxies for the     *)
(* clinker production family, then the recomputation and the pollutant update *)

InitClinker == Constructed({36}, BOOLEAN, CaptureScenarios) /\ pc = "fetch"

NextClinker == FetchProxies \/ Recompute

SpecClinker == InitClinker /\ [][NextClinker]_vars

-----------------------------------------------------------------------------
(* relink_datasets applied twice to one consumer of a family *)

RelinkPairs == {<<CementMarket.name, CementMarket.ref_prod>>,
                <<ClinkerMarket.name, ClinkerMarket.ref_prod>>}

\* locations an exchange may carry: native codes, regions, and a code the
\* crosswalk has no entry for
ExchangeLocations == FineLocs \cup Regions \cup {"GLO"}

RelinkExchanges ==
    {Exchange(t, pair[1], pair[2], l, "kilogram", RatOne, 0) :
        t \in {"technosphere", "production"}, pair \in RelinkPairs,
        l \in ExchangeLocations}

InitRelink ==
    /\ geo \in [FineLocs -> Regions]
    /\ \E e1 \in RelinkExchanges, e2 \in RelinkExchanges :
          heap = <<[Activity("concrete production", "concrete", "CH", "cubic meter",
                             <<e1, e2, Biosphere("Carbon dioxide, fossil", RatOne)>>)
                    EXCEPT !.code = 1]>>
    /\ \E pair \in RelinkPairs :
          entry = [name |-> pair[1], ref_product |-> pair[2], before |-> heap,
                   first |-> heap]
    /\ rmd = ScenarioData(RunCapture)
    /\ version = 36
    /\ lists = <<<<1>>>>
    /\ self_db = 1
    /\ fi = 1
    /\ d_act = <<>>
    /\ created_datasets = <<>>
    /\ log_deleted = <<>>
    /\ log_created = <<>>
    /\ ret = 0
    /\ NoLoop
    /\ pc = "relink"

RelinkFirst ==
    /\ pc = "relink"
    /\ heap' = RelinkDatasets(geo, heap, lists[self_db], entry.name, entry.ref_product)
    /\ entry' = [entry EXCEPT !.first = heap']
    /\ pc' = "relinked once"
    /\ UNCHANGED <<lists, self_db, geo, rmd, version, fi, d_act, created_datasets,
                   log_deleted, log_created, ret, share, ratio, ratio_to_reach,
                   average_ratio, iters>>

RelinkSecond ==
    /\ pc = "relinked once"
    /\ heap' = RelinkDatasets(geo, heap, lists[self_db], entry.name, entry.ref_product)
    /\ pc' = "relinked twice"
    /\ UNCHANGED <<lists, self_db, geo, rmd, version, fi, d_act, created_datasets,
                   log_deleted, log_created, ret, share, ratio, ratio_to_reach,
                   average_ratio, iters, entry>>

NextRelink == RelinkFirst \/ RelinkSecond

SpecRelink == InitRelink /\ [][NextRelink]_vars

-----------------------------------------------------------------------------
(* adjust_clinker_ratio on one proxy, pass by pass *)

MaxSuppliers == 2
IterCap == 128

\* the suppliers of composite material an exchange may point at
SupplierChoices ==
    {<<CementMarket.name, "cement, Portland", "RoW">>,
     <<SlagMarket, "cement, blast furnace slag 35-70%", "RoW">>,
     <<SlagMarket, "cement, blast furnace slag 35-70%", "CH">>}

ShareChoices == {RatZero, Rat(1, 200), Rat(1, 2), RatOne}

TargetChoices == {Rat(2, 5), Rat(7, 10)}

CementExchanges ==
    {Technosphere(c[1], c[2], c[3], "kilogram", a) : c \in SupplierChoices, a \in ShareChoices}

InitAdjust ==
    /\ \E n \in 1..MaxSuppliers : \E excs \in [1..n -> CementExchanges] :
          heap = <<[Activity("cement, all types to generic market for cement, unspecified",
                             "cement, unspecified", "EUR", "kilogram",
                             <<Production("cement, all types to generic market for cement, unspecified",
                                          "cement, unspecified", "EUR", "kilogram", 10)>>
                             \o excs)
                    EXCEPT !.code = 1]>>
    /\ \E target \in TargetChoices :
          rmd = [ScenarioData(RunCapture) EXCEPT
                    !.clinker_ratio_remind = [r \in Range(RegionNames) |-> target]]
    /\ geo \in [FineLocs -> {"EUR"}]
    /\ version = 36
    /\ lists = <<<<>>>>
    /\ self_db = 1
    /\ fi = 3
    /\ d_act = <<[region |-> "EUR", id |-> 1]>>
    /\ created_datasets = <<>>
    /\ log_deleted = <<>>
    /\ log_created = <<>>
    /\ ret = 0
    /\ NoLoop
    /\ entry = [share |-> InitialShare(heap[1].exchanges)]
    /\ pc = "adjust"

\* everything adjust_clinker_ratio does before the while loop
AdjustEnter ==
    /\ pc = "adjust"
    /\ IF RatioLookupRaises(heap[d_act[1].id].exchanges, clinker_ratio_eco)
       THEN /\ pc' = "raised"
            /\ UNCHANGED <<share, ratio, ratio_to_reach, average_ratio>>
       ELSE /\ ratio_to_reach' = rmd.clinker_ratio_remind[d_act[1].region]
            /\ share' = InitialShare(heap[d_act[1].id].exchanges)
            /\ ratio' = InitialRatio(heap[d_act[1].id].exchanges, clinker_ratio_eco)
            /\ average_ratio' = AverageRatio(share', ratio')
            /\ pc' = "while"
    /\ UNCHANGED <<heap, lists, self_db, geo, rmd, version, fi, d_act, created_datasets,
                   log_deleted, log_created, ret, iters, entry>>

\* one pass through the while loop; iters counts the passes, and the model
\* follows the loop for IterCap passes
AdjustLoop ==
    /\ pc = "while"
    /\ RatLt(ratio_to_reach, average_ratio)
    /\ iters < IterCap
    /\ IF LoopRaises(share, ratio)
       THEN /\ pc' = "raised"
            /\ UNCHANGED <<share, ratio, average_ratio, iters>>
       ELSE /\ share' = LoopBody(share, ratio).share
            /\ ratio' = LoopBody(share, ratio).ratio
            /\ average_ratio' = LoopBody(share, ratio).average_ratio
            /\ iters' = iters + 1
            /\ pc' = "while"
    /\ UNCHANGED <<heap, lists, self_db, geo, rmd, version, fi, d_act, created_datasets,
                   log_deleted, log_created, ret, ratio_to_reach, entry>>

\* the loop is left and the shares are written back
AdjustWriteBack ==
    /\ pc = "while"
    /\ ~RatLt(ratio_to_reach, average_ratio)
    /\ heap' = [heap EXCEPT ![d_act[1].id].exchanges = WriteBack(@, share)]
    /\ pc' = "done"
    /\ UNCHANGED <<lists, self_db, geo, rmd, version, fi, d_act, created_datasets,
                   log_deleted, log_created, ret, share, ratio, ratio_to_reach,
                   average_ratio, iters, entry>>

NextAdjust == AdjustEnter \/ AdjustLoop \/ AdjustWriteBack

SpecAdjust == InitAdjust /\ [][NextAdjust]_vars

-----------------------------------------------------------------------------
(* Properties of the whole run (Spec) *)

NoDuplicateKeys(acts) ==
    \A i \in DOMAIN acts, j \in DOMAIN acts : Key(acts[i]) = Key(acts[j]) => i = j

\* a family has been fetched and its proxies have been inserted
AfterInsertion ==
    \/ pc \in {"relink", "write_log", "final_relink", "return", "done"}
    \/ pc = "fetch" /\ fi > 1

\* C1: starting from a graph with unique (name, reference product, location),
\* at every point that follows a fetch_proxies call and the insertion of its
\* proxies, and in the returned graph, no two activities of the graph share
\* (name, reference product, location).
C1_UniqueKeys ==
    /\ AfterInsertion => NoDuplicateKeys(Db)
    /\ pc = "done" => NoDuplicateKeys(Acts(heap, lists[ret]))

\* the run has ended and the returned graph holds two proxies of one family
C1_Witness ==
    /\ pc = "done"
    /\ \E i \in DOMAIN Db, j \in DOMAIN Db :
          /\ InFamily(Db[i], ClinkerProduction.name, ClinkerProduction.ref_prod)
          /\ InFamily(Db[j], ClinkerProduction.name, ClinkerProduction.ref_prod)
          /\ Db[i].location \in Regions
          /\ Db[j].location \in Regions
          /\ Db[i].location # Db[j].location

\* the members of the current family in the graph
FamilyMembers == {a \in Range(Db) : InFamily(a, Family.name, Family.ref_prod)}

\* the members a proxy for region r may be copied from: those the crosswalk
\* maps to r, and when there is none those at the rest-of-world location
SourcesFor(r) ==
    LET own == {a \in FamilyMembers : ecoinvent_to_remind_location(geo, a.location) = r}
    IN  IF own # {} THEN own ELSE {a \in FamilyMembers : a.location = "RoW"}

\* c is src with the location, and the location of the production exchanges,
\* set to r
IsCloneOf(c, src, r) ==
    /\ c.name = src.name
    /\ c.reference_product = src.reference_product
    /\ c.unit = src.unit
    /\ c.location = r
    /\ Len(c.exchanges) = Len(src.exchanges)
    /\ \A i \in DOMAIN src.exchanges :
          c.exchanges[i] = IF IsProduction(src.exchanges[i])
                           THEN [src.exchanges[i] EXCEPT !.location = r]
                           ELSE src.exchanges[i]

\* C2: fetch_proxies returns exactly one proxy for every region that has a
\* source (a member the crosswalk maps to the region, else the member at the
\* rest-of-world location) and nothing for any other region; the proxy is a
\* copy of that source whose location and production-exchange locations are
\* the region.
C2_OneProxyPerRegion ==
    [][(pc = "fetch" /\ pc' \in {"recompute", "insert"}) =>
        \A r \in Regions :
            LET entries == {i \in DOMAIN d_act' : d_act'[i].region = r}
            IN  IF SourcesFor(r) = {} THEN entries = {}
                ELSE /\ Cardinality(entries) = 1
                     /\ \A i \in entries : \E src \in SourcesFor(r) :
                           IsCloneOf(heap'[d_act'[i].id], src, r)]_vars

\* the clinker production family had its only member at the rest-of-world
\* location, which the crosswalk maps to the first region: every region got a
\* proxy copied from that member
C2_Witness ==
    /\ pc = "recompute"
    /\ fi = 1
    /\ entry.members = <<"RoW">>
    /\ geo["RoW"] = list_remind_regions[1]
    /\ Len(d_act) = NumRegions
    /\ \E id \in Range(lists[1]) :
          /\ InFamily(heap[id], Family.name, Family.ref_prod)
          /\ heap[id].location = "RoW"
          /\ \A i \in DOMAIN d_act : IsCloneOf(heap[d_act[i].id], heap[id], d_act[i].region)

\* C3: when fetch_proxies returns, the graph holds no activity of the family,
\* and every activity of another family is still in the graph, unchanged.
C3_FamilyRemovedOthersKept ==
    [][(pc = "fetch" /\ pc' \in {"recompute", "insert"}) =>
        /\ \A j \in DOMAIN lists'[self_db'] :
              ~InFamily(heap'[lists'[self_db'][j]], Family.name, Family.ref_prod)
        /\ \A j \in DOMAIN lists[self_db] :
              LET id == lists[self_db][j]
              IN  ~InFamily(heap[id], Family.name, Family.ref_prod) =>
                     /\ id \in Range(lists'[self_db'])
                     /\ heap'[id] = heap[id]]_vars

\* fetch_proxies has just returned; members of the family were in the graph
\* before the call and other activities are in it now
C3_Witness ==
    /\ pc = "recompute"
    /\ self_db > 1
    /\ Len(lists[self_db]) < Len(lists[self_db - 1])
    /\ Len(lists[self_db]) > 0
    /\ Len(d_act) > 0

\* acts has exactly one activity the exchange points at
Resolves(acts, exc) ==
    Cardinality({j \in DOMAIN acts : Key(acts[j]) = <<exc.name, exc.product, exc.location>>}) = 1

\* C4: in the returned graph every technosphere exchange of every activity
\* points at exactly one activity of the graph.
C4_NoDanglingReference ==
    pc = "done" =>
        \A i \in DOMAIN lists[ret] :
            \A exc \in Range(heap[lists[ret][i]].exchanges) :
                IsTechnosphere(exc) => Resolves(Acts(heap, lists[ret]), exc)

\* C6: the returned graph is the list the caller handed in, so the caller's
\* own reference shows the graph without the generic activities and with the
\* proxies.
C6_SameContainer ==
    pc = "done" => ret = 1 /\ lists[1] = lists[ret]

\* the keys of the activities the j-th fetch_proxies call of the run removed:
\* list j is the graph that call started from
RemovedByFetch(j) ==
    LET gone == SelectSeq(lists[j], LAMBDA id :
                    InFamily(heap[id], Families(version)[j].name,
                             Families(version)[j].ref_prod))
    IN  [i \in DOMAIN gone |-> Key(heap[gone[i]])]

\* the proxies in the graph: the activities the caller's list did not hold
ClonesInGraph == {id \in Range(lists[self_db]) : id \notin Range(lists[1])}

\* C14: the deleted-datasets log is reset before the first family and then
\* holds, family by family in processing order, one record for each activity
\* fetch_proxies removed; the created-datasets log holds no record until the
\* last family is done and then exactly one record for each inserted proxy.
C14_Logs ==
    /\ pc \notin {"start"} =>
          log_deleted = LogHeader \o Concat([j \in 1..(self_db - 1) |-> RemovedByFetch(j)])
    /\ pc \in {"fetch", "recompute", "insert", "relink", "write_log"} =>
          log_created = LogHeader
    /\ pc \in {"final_relink", "return", "done"} =>
          /\ SubSeq(log_created, 1, 1) = LogHeader
          /\ Len(log_created) = 1 + Cardinality(ClonesInGraph)
          /\ \A id \in ClonesInGraph :
                Cardinality({i \in 2..Len(log_created) : log_created[i] = Key(heap[id])}) = 1

\* the run has ended, activities were removed and proxies were inserted
C14_Witness ==
    /\ pc = "done"
    /\ Len(log_deleted) > 2
    /\ Len(log_created) > 2

\* no technosphere exchange of the graph points at the j-th family at a
\* location that is not a target region
FamilyRelinked(j) ==
    \A a \in Range(Db) : \A exc \in Range(a.exchanges) :
        (/\ IsTechnosphere(exc)
         /\ exc.name = Families(version)[j].name
         /\ exc.product = Families(version)[j].ref_prod)
        => exc.location \in Regions

\* C15: when fetch_proxies is called for a family, the proxies of every
\* earlier family are in the graph and the references to it are relinked; so
\* 'clinker production' and 'market for clinker' are both relinked before the
\* first cement family is cloned.
C15_FamilyIsOneUnit ==
    (pc = "fetch" /\ fi > 1) =>
        \A j \in 1..(fi - 1) :
            /\ FamilyRelinked(j)
            /\ \A a \in Range(Db) :
                  InFamily(a, Families(version)[j].name, Families(version)[j].ref_prod)
                  => a.location \in Regions

\* new is the exchange old of the same activity with another amount
Rewritten(old, new) ==
    /\ new.type = old.type
    /\ new.name = old.name
    /\ new.location = old.location
    /\ new.amount # old.amount

\* C19: an exchange of a proxy whose amount the recomputation, the electricity
\* update or the write-back of the shares has changed carries uncertainty
\* type 0 (no uncertainty) afterwards.
C19_UncertaintyReset ==
    [][(pc = "recompute" /\ pc' = "insert") =>
        \A i \in DOMAIN d_act :
            \A old \in Range(heap[d_act[i].id].exchanges) :
                \A new \in Range(heap'[d_act[i].id].exchanges) :
                    Rewritten(old, new) => new.uncertainty_type = 0]_vars

-----------------------------------------------------------------------------
(* Properties of relink_datasets (SpecRelink) *)

\* C5: a second relink_datasets(name, product) leaves the graph as the first
\* left it, and every location the first one wrote is a target region.
C5_RelinkIdempotent ==
    /\ pc = "relinked twice" => heap = entry.first
    /\ pc = "relinked once" =>
          \A id \in DOMAIN heap : \A i \in DOMAIN heap[id].exchanges :
              heap[id].exchanges[i] # entry.before[id].exchanges[i] =>
                  heap[id].exchanges[i].location \in Regions

\* relink_datasets has run twice and the first run moved an exchange
C5_Witness ==
    /\ pc = "relinked twice"
    /\ entry.first # entry.before

\* relink_datasets(name, product) may move this exchange
MayBeRelinked(exc) ==
    /\ exc.type = "technosphere"
    /\ exc.name = entry.name
    /\ exc.product = entry.ref_product
    /\ exc.location \notin Regions

\* C20: relink_datasets(name, product) leaves the list of activities and every
\* field of every activity as it was, except the location of technosphere
\* exchanges of that (name, product) that are not located in a target region.
C20_RelinkFrame ==
    pc = "relinked once" =>
        /\ lists = <<[i \in DOMAIN entry.before |-> i]>>
        /\ DOMAIN heap = DOMAIN entry.before
        /\ \A id \in DOMAIN heap :
              /\ [heap[id] EXCEPT !.exchanges = <<>>]
                    = [entry.before[id] EXCEPT !.exchanges = <<>>]
              /\ DOMAIN heap[id].exchanges = DOMAIN entry.before[id].exchanges
              /\ \A i \in DOMAIN heap[id].exchanges :
                    LET old == entry.before[id].exchanges[i]
                        new == heap[id].exchanges[i]
                    IN  IF MayBeRelinked(old)
                        THEN [new EXCEPT !.location = old.location] = old
                        ELSE new = old

\* relink_datasets has moved an exchange of an activity that also has an
\* exchange of the same (name, product) it must not move
C20_Witness ==
    /\ pc = "relinked once"
    /\ heap # entry.before
    /\ \E exc \in Range(entry.before[1].exchanges) :
          /\ exc.name = entry.name
          /\ exc.product = entry.ref_product
          /\ ~MayBeRelinked(exc)

-----------------------------------------------------------------------------
(* Properties of adjust_clinker_ratio (SpecAdjust) *)

\* C7: when adjust_clinker_ratio comes to its end, the amounts written back to
\* the cement exchanges of the proxy add up to what they added up to at entry.
C7_SharesSumKept ==
    pc = "done" =>
        RatSum(InitialShare(heap[d_act[1].id].exchanges)) = RatSum(entry.share)

\* the loop has made passes and the amounts written back differ from those at
\* entry
C7_Witness ==
    /\ pc = "done"
    /\ iters > 0
    /\ InitialShare(heap[d_act[1].id].exchanges) # entry.share

\* the composition the loop starts on has a weighted ratio at or above the
\* target, a supplier whose ratio is above the target and one whose ratio is
\* below it
C8_Start ==
    LET native == InitialRatio(heap[d_act[1].id].exchanges, clinker_ratio_eco)
        target == rmd.clinker_ratio_remind[d_act[1].region]
    IN  /\ RatLe(target, AverageRatio(entry.share, native))
        /\ \E i \in DOMAIN native : RatLt(target, native[i])
        /\ \E i \in DOMAIN native : RatLt(native[i], target)

\* C8: from such a start the loop is left after at most 100 passes (one
\* percentage point is moved per pass), with the weighted ratio no higher than
\* the target.
C8_BoundedPasses ==
    C8_Start =>
        /\ iters <= 100
        /\ pc = "done" => RatLe(average_ratio, ratio_to_reach)

\* C16: every pass through the loop ends with a weighted ratio strictly
\* smaller than the one it started with.
C16_RatioDecreases ==
    [][(pc = "while" /\ pc' = "while") => RatLt(average_ratio', average_ratio)]_vars

\* a pass through the loop would leave shares, ratios and weighted ratio as
\* they are
PassChangesNothing ==
    /\ LoopBody(share, ratio).share = share
    /\ LoopBody(share, ratio).ratio = ratio
    /\ LoopBody(share, ratio).average_ratio = average_ratio

\* C17: on no input does the loop iterate forever. The method keeps no pass
\* count, so the loop goes on forever from a state in which its condition
\* holds and a pass changes nothing; no such state is reached.
C17_NoEndlessLoop ==
    (/\ pc = "while"
     /\ RatLt(ratio_to_reach, average_ratio)
     /\ ~LoopRaises(share, ratio))
    => ~PassChangesNothing

\* no share of the sequence is below zero (a masked share counts as 0)
NonNegative(sh) == \A i \in DOMAIN sh : IsNaN(sh[i]) \/ RatLe(RatZero, sh[i])

\* C21: when adjust_clinker_ratio starts on shares that are all non-negative,
\* every share held during the loop and every amount written back is
\* non-negative.
C21_SharesNonNegative ==
    NonNegative(entry.share) =>
        /\ pc = "while" => NonNegative(share)
        /\ pc = "done" => NonNegative(InitialShare(heap[d_act[1].id].exchanges))

-----------------------------------------------------------------------------
(* Properties of build_clinker_production_datasets (SpecClinker) *)

\* C9: a pollutant exchange whose amount is 0 before update_pollutant_emissions
\* has the emission value of the proxy's region and pollutant as its amount
\* afterwards.
C9_ZeroAmountIsSet ==
    [][(pc = "recompute" /\ pc' = "insert" /\ Family.kind = "clinker production") =>
        \A i \in DOMAIN d_act :
            \A e \in Range(heap[d_act[i].id].exchanges) :
                (IsBiosphere(e) /\ e.name \in DOMAIN emissions_map /\ e.amount = RatZero) =>
                    \A f \in Range(heap'[d_act[i].id].exchanges) :
                        f.name = e.name =>
                            f.amount = remind_emission(rmd, d_act[i].region,
                                                       emissions_map[e.name])]_vars

\* C18: for each fuel type and each supplier resolved for it, the proxy has a
\* technosphere exchange to that supplier with amount = the supplier's share
\* times the fuel mass of that same fuel type, divided by 1000.
C18_FuelAmounts ==
    (pc = "insert" /\ Family.kind = "clinker production") =>
        \A i \in DOMAIN d_act : \A f \in DOMAIN FuelLoop :
            LET q == Quantities(rmd.gnr_data[d_act[i].region])
                suppliers == FuelSuppliers(geo, Db, d_act[i].region, FuelLoop[f])
            IN  \A n \in DOMAIN suppliers :
                    \E exc \in Range(heap[d_act[i].id].exchanges) :
                        /\ IsTechnosphere(exc)
                        /\ exc.name = suppliers[n].key[1]
                        /\ exc.location = suppliers[n].key[2]
                        /\ exc.product = suppliers[n].key[3]
                        /\ exc.amount = RatDiv(RatMul(suppliers[n].share, q.fuel_qty[f]),
                                               Int2Rat(1000))

\* the region's captured-to-emitted CO2 ratio is strictly positive
CapturePositive(region) ==
    \/ rmd.data[region].cco2 > 0 /\ rmd.data[region].co2 > 0
    \/ rmd.data[region].cco2 < 0 /\ rmd.data[region].co2 < 0

HasExchangeNamed(act, name) == \E e \in Range(act.exchanges) : e.name = name

\* C10: a clinker proxy has the carbon-capture electricity exchange and the
\* carbon-capture heat exchange if and only if its region's captured-to-emitted
\* CO2 ratio is strictly positive; otherwise it has neither and its CO2 amounts
\* are those of a capture rate of 0.
C10_CaptureGate ==
    (pc = "insert" /\ Family.kind = "clinker production") =>
        \A i \in DOMAIN d_act :
            LET act == heap[d_act[i].id]
                region == d_act[i].region
                q == Quantities(rmd.gnr_data[region])
            IN  /\ HasExchangeNamed(act, ElectricityGroup) <=> CapturePositive(region)
                /\ HasExchangeNamed(act, SteamProduction) <=> CapturePositive(region)
                /\ ~CapturePositive(region) =>
                      \A e \in Range(act.exchanges) :
                          /\ e.name = "Carbon dioxide, fossil" =>
                                e.amount = RatDiv(RatAdd(q.fossil_co2, Int2Rat(525)),
                                                  Int2Rat(1000))
                          /\ e.name = "Carbon dioxide, non-fossil" =>
                                e.amount = RatDiv(q.biogenic_co2, Int2Rat(1000))

\* the recomputation is done for a proxy of a region that captures carbon and
\* for a proxy of a region whose ratio is zero or negative
C10_Witness ==
    /\ pc = "insert"
    /\ Family.kind = "clinker production"
    /\ \E i \in DOMAIN d_act : CapturePositive(d_act[i].region)
    /\ \E i \in DOMAIN d_act :
          /\ ~CapturePositive(d_act[i].region)
          /\ HasExchangeNamed(heap[d_act[i].id], "Carbon dioxide, fossil")

\* the fuel has no supplier in the graph, neither for region k nor for the
\* fallback region of the fuel
NoSupplier(k, fuel) ==
    /\ get_suppliers_of_a_region(geo, Db, k, fuel_map[fuel[1]], fuel[2]) = <<>>
    /\ get_suppliers_of_a_region(geo, Db, fuel[3], fuel_map[fuel[1]], fuel[2]) = <<>>

\* C12: when a fuel type has no supplier for the region of a proxy and none
\* for the fallback region, the recomputation ends with an error.
C12_NoSupplierRaises ==
    [][(/\ pc = "recompute"
        /\ Family.kind = "clinker production"
        /\ \E i \in DOMAIN d_act : \E f \in DOMAIN FuelLoop :
              NoSupplier(d_act[i].region, FuelLoop[f]))
       => pc' = "raised"]_vars

\* C13: when the processing of a family has ended with an error after its
\* fetch_proxies call, no technosphere exchange of the graph points at an
\* activity of that family that is not in the graph.
C13_NoHalfBuiltFamily ==
    (pc = "raised" /\ d_act # <<>>) =>
        \A a \in Range(Db) : \A exc \in Range(a.exchanges) :
            (/\ IsTechnosphere(exc)
             /\ exc.name = Family.name
             /\ exc.product = Family.ref_prod)
            => \E b \in Range(Db) : Key(b) = <<exc.name, exc.product, exc.location>>

-----------------------------------------------------------------------------
(* get_shares_from_production_volume on a selection of supplier activities *)

MaxSelected == 2

\* the production exchanges an activity of the selection may carry
SupplierProductions ==
    {<<Production("market for hard coal", "hard coal", l, "kilogram", pv1)>> :
        l \in {"RoW"}, pv1 \in 0..2}
    \cup {<<Production("market for hard coal", "hard coal", l, "kilogram", pv1),
            Production("market for hard coal", "hard coal", l, "kilogram", pv2)>> :
        l \in {"RoW"}, pv1 \in 0..2, pv2 \in 0..2}

SupplierActivities ==
    {Activity("market for hard coal", "hard coal", l, "kilogram", prods) :
        l \in {"RoW", "CH"}, prods \in SupplierProductions}

InitShares ==
    /\ \E n \in 0..MaxSelected : heap \in [1..n -> SupplierActivities]
    /\ geo \in [FineLocs -> {"EUR"}]
    /\ rmd = ScenarioData(RunCapture)
    /\ version = 36
    /\ lists = <<[i \in DOMAIN heap |-> i]>>
    /\ self_db = 1
    /\ fi = 1
    /\ d_act = <<>>
    /\ created_datasets = <<>>
    /\ log_deleted = <<>>
    /\ log_created = <<>>
    /\ ret = <<>>
    /\ NoLoop
    /\ entry = [ds |-> heap]
    /\ pc = "shares"

\* the call get_shares_from_production_volume(ds); ret is the returned mapping
GetShares ==
    /\ pc = "shares"
    /\ IF SharesRaise(Db)
       THEN pc' = "raised" /\ UNCHANGED ret
       ELSE pc' = "done" /\ ret' = get_shares_from_production_volume(Db)
    /\ UNCHANGED <<heap, lists, self_db, geo, rmd, version, fi, d_act, created_datasets,
                   log_deleted, log_created, share, ratio, ratio_to_reach,
                   average_ratio, iters, entry>>

NextShares == GetShares

SpecShares == InitShares /\ [][NextShares]_vars

-----------------------------------------------------------------------------
(* Properties of get_shares_from_production_volume (SpecShares) *)

\* C11: for a non-empty selection the returned shares add up to 1, also when
\* an activity has several production exchanges or several activities have
\* the same key; for an empty selection the mapping is empty and nothing is
\* raised.
C11_SharesSumToOne ==
    /\ (pc = "done" /\ Db # <<>>) =>
          RatSum([i \in DOMAIN ret |-> ret[i].share]) = RatOne
    /\ (pc # "shares" /\ Db = <<>>) => (pc = "done" /\ ret = <<>>)

-----------------------------------------------------------------------------
(* fetch_proxies on two inventories that hold the same activities in different
   orders *)

\* the orders in which n family members can be stored
Orders(n) == {p \in [1..n -> 1..n] : \A i, j \in 1..n : p[i] = p[j] => i = j}

\* the list that stores the family members in the order p, the other
\* activities after them; the members of one location are stored together
StoredInOrder(h, n, p) ==
    LET per == Len(Families(version))
        block(k) == [i \in 1..per |-> per * (p[k] - 1) + i]
    IN  Concat([k \in 1..n |-> block(k)]) \o [i \in 1..(Len(h) - per * n) |-> per * n + i]

\* lists[1] and lists[2] are the databases of two Cement objects; heap holds the
\* activities of both (fetch_proxies does not write to the activities it reads)
InitOrder ==
    /\ geo \in [FineLocs -> Regions]
    /\ version = 36
    /\ fi \in DOMAIN Families(version)
    /\ \E members \in SubSeqsOf(SubSeq(FineNames, 1, NumFine)) :
          /\ heap = InitialActivities(members, version, TRUE)
          /\ \E p \in Orders(Len(members)) :
                lists = <<[i \in DOMAIN heap |-> i], StoredInOrder(heap, Len(members), p)>>
          /\ entry = [members |-> members, has_fossil |-> TRUE, first |-> <<>>]
    /\ rmd = ScenarioData(RunCapture)
    /\ self_db = 1
    /\ d_act = <<>>
    /\ created_datasets = <<>>
    /\ log_deleted = <<>>
    /\ log_created = <<>>
    /\ ret = 0
    /\ NoLoop
    /\ pc = "first order"

\* fetch_proxies(name, ref_prod) of the Cement object whose database is lists[l]
FetchFrom(l) ==
    LET acts == Acts(heap, lists[l])
        proxies == FetchedProxies(geo, acts, Family.name, Family.ref_prod, Len(heap))
    IN  /\ heap' = heap \o [i \in DOMAIN proxies |-> proxies[i].act]
        /\ d_act' = [i \in DOMAIN proxies |->
                        [region |-> proxies[i].region, id |-> Len(heap) + i]]
        /\ log_deleted' = log_deleted \o DeletedMarkets(acts, Family.name, Family.ref_prod)
        /\ lists' = Append(lists, RemoveOldDatasets(heap, lists[l],
                                                    Family.name, Family.ref_prod))
        /\ self_db' = Len(lists) + 1

\* the call on the first inventory; its d_act is kept in entry.first
FetchFirstOrder ==
    /\ pc = "first order"
    /\ FetchFrom(1)
    /\ entry' = [entry EXCEPT !.first = d_act']
    /\ pc' = "second order"
    /\ UNCHANGED <<geo, rmd, version, fi, created_datasets, log_created, ret,
                   share, ratio, ratio_to_reach, average_ratio, iters>>

\* the same call on the second inventory
FetchSecondOrder ==
    /\ pc = "second order"
    /\ FetchFrom(2)
    /\ pc' = "fetched both"
    /\ UNCHANGED <<geo, rmd, version, fi, created_datasets, log_created, ret,
                   share, ratio, ratio_to_reach, average_ratio, iters, entry>>

NextOrder == FetchFirstOrder \/ FetchSecondOrder

SpecOrder == InitOrder /\ [][NextOrder]_vars

-----------------------------------------------------------------------------
(* Properties of fetch_proxies on reordered inventories (SpecOrder) *)

\* a clone without its code, which is a fresh random identifier
Uncoded(act) == [act EXCEPT !.code = 0]

\* C22: the two inventories hold the same activities, so fetch_proxies yields
\* clones for the same regions from both, and the two clones of a region are
\* copies of the same source activity.
C22_OrderIndependent ==
    pc = "fetched both" =>
        /\ DOMAIN d_act = DOMAIN entry.first
        /\ \A i \in DOMAIN d_act :
              /\ d_act[i].region = entry.first[i].region
              /\ Uncoded(heap[d_act[i].id]) = Uncoded(heap[entry.first[i].id])

====
